---- MODULE Spec2Model ----
(***************************************************************************)
(* Model of the controller-input subsystem, impact_synth/midi_manager.py:  *)
(* class MidiManager, its per-port polling threads (process_midi), the     *)
(* message decoder (handle_midi_message / process_cc_message), the         *)
(* controller store (cc_values, last_cc) and the callback registry         *)
(* (cc_callbacks, trigger_callbacks).                                      *)
(*                                                                         *)
(* Granularity: a polling thread takes one step per access to shared       *)
(* state: the test of self.running, the read of the handle together with   *)
(* the (thread-local) decoding and the write of cc_values, the write of    *)
(* last_cc, and each iteration of the dispatch loop.  Construction         *)
(* (__init__ with init_midi) is one step of the application thread.        *)
(***************************************************************************)
EXTENDS Integers, Sequences, FiniteSets, TLC

\* ------------------------------------------------------------------ bounds
NumPorts == 2      \* ports the backend may enumerate
MaxLen == 3        \* longest raw message a read delivers
MaxSubs == 2       \* subscriptions held by the registry at one time
MaxMsgs == 2       \* messages delivered over one run, all devices together

\* --------------------------------------------------- sampled input domains
\* Values of RTMIDI_API_TYPE that the import probing can leave behind.
ApiTypes == {"not-available", "unknown", "python-rtmidi", "rtmidi-python", "original"}

\* Bytes a device may send at each position of a message.  Status bytes:
\* Control Change (0xB5) and note-on (0x95), both on channel 5.  Second byte:
\* two controller numbers.  Third byte: one legal value and one above 127.
StatusSamples == {181, 149}
CtrlSamples == {7, 64}
ValueSamples == {64, 200}
ByteSamples(pos) ==
    IF pos = 1 THEN StatusSamples
    ELSE IF pos = 2 THEN CtrlSamples
    ELSE IF pos = 3 THEN ValueSamples
    ELSE {0}
\* Controller numbers the application subscribes to.
SubCCs == {7, 64}
\* Defaults handed to get_cc.
Defaults == {0, 64}

\* The subscriber functions: f declares (cc, value, channel), g declares a
\* fourth parameter and raises whenever it runs.
Callbacks == {"f", "g"}
\* With h, which declares (cc, value) only.
AllCallbacks == Callbacks \cup {"h"}
\* handle_brightness_cc is the application's bound method declaring
\* (cc_number, value, channel, device_name=None).
NParams(cb) ==
    IF cb = "f" THEN 3 ELSE IF cb \in {"g", "handle_brightness_cc"} THEN 4 ELSE 2
Raises(cb) == cb = "g"
\* A Python call binds its positional arguments to the declared parameters:
\* with a different count the call raises TypeError before the body runs.
Accepts(cb, args) == Len(args) = NParams(cb)

Ports == 0 .. (NumPorts - 1)
PortName(i) == <<"port", i>>

\* Where the body of init_midi's per-port try block may raise.
FailStages == {"none", "name", "create", "open", "configure", "thread"}

\* Raw byte sequences of exactly n bytes.
RECURSIVE RawOfLen(_)
RawOfLen(n) ==
    IF n = 0 THEN {<<>>}
    ELSE {Append(s, b) : s \in RawOfLen(n - 1), b \in ByteSamples(n)}

\* Raw byte sequences one read may deliver.
RawData == UNION {RawOfLen(n) : n \in 0 .. MaxLen}

\* The shapes in which a backend hands a message to handle_midi_message.
Shapes(a) ==
    IF a = "python-rtmidi" THEN {"tuple"}
    ELSE IF a = "rtmidi-python" THEN {"bytes"}
    ELSE {"getMessage", "accessors", "bytes"}

\* What a thread holds when it has no message in hand.
None == [kind |-> "none"]
\* last_cc before any Control Change was stored (Python's None).
NoCc == <<>>

VARIABLES
    api,             \* RTMIDI_API_TYPE
    portCount,       \* what get_port_count will answer
    tempFails,       \* creating the scanning input or counting ports raises
    portFail,        \* per port, where opening it raises
    mainpc,          \* application thread: "new", "ready", "joining", "closed"
    running, connected,
    midi_inputs, midi_devices, midi_threads, available_ports,
    cc_values, last_cc, cc_callbacks,
    handle,          \* per port, the input the manager keeps in midi_inputs:
                     \* "unopened" (none kept), "open", "closed", or
                     \* "close_failed" (close_port was called and raised)
    tpc,             \* per port, the polling thread's position
    tev,             \* per port, what the message in the thread's hand decoded to
    tidx,            \* per port, the dispatch loop's list index
    calls,           \* per port, the calls made for the thread's latest event
    dirty,           \* per port, the subscriber list changed during the dispatch
    nmsgs,           \* messages delivered so far
    raised           \* an exception escaped to a caller of the manager

vars == <<api, portCount, tempFails, portFail, mainpc, running, connected,
          midi_inputs, midi_devices, midi_threads, available_ports,
          cc_values, last_cc, cc_callbacks, handle, tpc, tev, tidx, calls,
          dirty, nmsgs, raised>>

envVars == <<api, portCount, tempFails, portFail>>
listVars == <<midi_inputs, midi_devices, midi_threads, available_ports>>
storeVars == <<cc_values, last_cc>>
threadVars == <<tpc, tev, tidx, calls, dirty>>

\* ----------------------------------------------------------------- helpers
Range(s) == {s[i] : i \in 1 .. Len(s)}

\* dict[key] = value
DictSet(d, k, v) == [x \in DOMAIN d \cup {k} |-> IF x = k THEN v ELSE d[x]]

EmptyDict == [x \in {} |-> 0]

\* list.remove(x): drops the first occurrence.
RemoveFirst(s, x) ==
    LET i == CHOOSE j \in 1 .. Len(s) : s[j] = x /\ \A k \in 1 .. (j - 1) : s[k] # x
    IN SubSeq(s, 1, i - 1) \o SubSeq(s, i + 1, Len(s))

RECURSIVE SumLens(_, _)
SumLens(d, keys) ==
    IF keys = {} THEN 0
    ELSE LET k == CHOOSE x \in keys : TRUE
         IN Len(d[k]) + SumLens(d, keys \ {k})

TotalSubs == SumLens(cc_callbacks, DOMAIN cc_callbacks)

\* ----------------------------------------------------------- the decoder
\* process_cc_message with the controller number and the value taken from
\* each other's byte.
process_cc_message_swapped(data) ==
    IF Len(data) >= 2
    THEN IF (data[1] \div 16) * 16 = 176 /\ Len(data) >= 3
         THEN [kind |-> "cc", cc |-> data[3], value |-> data[2], channel |-> data[1] % 16]
         ELSE [kind |-> "ignored"]
    ELSE [kind |-> "short"]

\* process_cc_message without the outer length test, missing bytes read as 0.
process_cc_message_padded(data) ==
    LET byte(i) == IF i <= Len(data) THEN data[i] ELSE 0
    IN IF (byte(1) \div 16) * 16 = 176 \/ Len(data) < 2
       THEN [kind |-> "cc", cc |-> byte(2), value |-> byte(3), channel |-> byte(1) % 16]
       ELSE [kind |-> "ignored"]

\* process_cc_message: what a raw byte sequence decodes to.  The kind names
\* the branch taken: "cc" stores and dispatches, "short" is the failed outer
\* test, "ignored" the failed inner one; the last two do nothing.
process_cc_message(data) ==
    IF Len(data) >= 2
    THEN LET status_byte == data[1]
             message_type == (status_byte \div 16) * 16     \* status_byte & 0xF0
             channel == status_byte % 16                    \* status_byte & 0x0F
         IN IF message_type = 176 /\ Len(data) >= 3
            THEN [kind |-> "cc", cc |-> data[2], value |-> data[3], channel |-> channel]
            ELSE [kind |-> "ignored"]
    ELSE [kind |-> "short"]

\* `if msg:` in process_midi, `if not msg:` in handle_midi_message.  A
\* (data, timestamp) tuple and a message object are truthy; a bare byte list
\* is truthy when it is not empty.
Truthy(msg) == msg.shape # "bytes" \/ Len(msg.data) > 0

\* The branch of handle_midi_message for message objects that expose
\* getControllerNumber / getControllerValue / getChannel: the accessors hand
\* back the second byte, the third byte and the status byte's low nibble, and
\* raise into the handler's `except` when the byte is not there.  The branch
\* does not look at the message type.
AccessorEvent(data) ==
    IF Len(data) >= 3
    THEN [kind |-> "cc", cc |-> data[2], value |-> data[3], channel |-> data[1] % 16]
    ELSE [kind |-> "error"]

\* handle_midi_message, reached through `if msg:`: what a backend message
\* decodes to under API type a.
handle_midi_message(a, msg) ==
    IF ~Truthy(msg) THEN [kind |-> "nothing"]
    ELSE IF a = "python-rtmidi" THEN process_cc_message(msg.data)
    ELSE IF a = "rtmidi-python" THEN process_cc_message(msg.data)
    ELSE IF msg.shape = "getMessage" THEN process_cc_message(msg.data)
    ELSE IF msg.shape = "accessors" THEN AccessorEvent(msg.data)
    ELSE process_cc_message(msg.data)

\* Messages a read may return under API type a.
Messages(a) == {[shape |-> sh, data |-> d] : sh \in Shapes(a), d \in RawData}

\* What the messages of each API type decode to.
DecodedBy == [a \in ApiTypes |-> {handle_midi_message(a, msg) : msg \in Messages(a)}]
Decoded(a) == DecodedBy[a]

\* ------------------------------------------------- store and registry API
\* get_cc that answers 0 for a controller never seen, whatever the default.
get_cc_zero(cc_number, default) ==
    IF cc_number \in DOMAIN cc_values THEN cc_values[cc_number] ELSE 0

get_cc(cc_number, default) ==
    IF cc_number \in DOMAIN cc_values THEN cc_values[cc_number] ELSE default

\* register_cc_callback that inserts at the front of the list.
register_cc_callback_front(reg, cc_number, callback) ==
    LET had == IF cc_number \in DOMAIN reg THEN reg[cc_number] ELSE <<>>
    IN DictSet(reg, cc_number, <<callback>> \o had)

register_cc_callback(reg, cc_number, callback) ==
    LET had == IF cc_number \in DOMAIN reg THEN reg[cc_number] ELSE <<>>
    IN DictSet(reg, cc_number, Append(had, callback))

unregister_cc_callback(reg, cc_number, callback) ==
    IF cc_number \in DOMAIN reg /\ callback \in Range(reg[cc_number])
    THEN DictSet(reg, cc_number, RemoveFirst(reg[cc_number], callback))
    ELSE reg

\* trigger_callbacks, the loop condition: the controller has a list and the
\* list iterator at index idx has an element left.
HasNext(reg, cc_number, idx) ==
    cc_number \in DOMAIN reg /\ idx < Len(reg[cc_number])

\* trigger_callbacks without the try/except: a raising callback ends the loop.
AfterCallUncaught(cb, idx) == IF Raises(cb) THEN idx + MaxSubs + 1 ELSE idx + 1

\* trigger_callbacks, the try/except around the call: whether the callback
\* returns or raises, the loop goes on with the next list index.
AfterCall(cb, idx) == idx + 1

\* trigger_callbacks, the call: the arguments chosen from the callback's
\* declared parameter count.
CallArgs(cb, cc_number, value, channel, device_name) ==
    IF NParams(cb) >= 4
    THEN <<cc_number, value, channel, device_name>>
    ELSE <<cc_number, value, channel>>

\* ------------------------------------------------------------ construction
\* The per-port try block raises at stage st under API type a
\* (ignore_types is `pass` for rtmidi-python, so it cannot raise there).
PortRaises(a, st) == st # "none" /\ ~(st = "configure" /\ a = "rtmidi-python")

\* One iteration of init_midi's loop over range(port_count).
PortBody(a, i, st, acc) ==
    LET named == IF PortRaises(a, st) /\ st = "name" THEN acc.available_ports
                 ELSE Append(acc.available_ports, PortName(i))
        stored == ~PortRaises(a, st) \/ st = "thread"
        threaded == ~PortRaises(a, st)
    IN [available_ports |-> named,
        midi_inputs |-> IF stored THEN Append(acc.midi_inputs, i) ELSE acc.midi_inputs,
        midi_devices |-> IF stored THEN Append(acc.midi_devices, PortName(i))
                         ELSE acc.midi_devices,
        midi_threads |-> IF threaded THEN Append(acc.midi_threads, i) ELSE acc.midi_threads]

\* init_midi's loop with the try around the whole loop: the first port that
\* raises ends it.
RECURSIVE InitLoopAbort(_, _, _, _, _)
InitLoopAbort(a, i, n, fails, acc) ==
    IF i >= n THEN acc
    ELSE IF PortRaises(a, fails[i]) THEN PortBody(a, i, fails[i], acc)
    ELSE InitLoopAbort(a, i + 1, n, fails, PortBody(a, i, fails[i], acc))

RECURSIVE InitLoop(_, _, _, _, _)
InitLoop(a, i, n, fails, acc) ==
    IF i >= n THEN acc
    ELSE InitLoop(a, i + 1, n, fails, PortBody(a, i, fails[i], acc))

EmptyLists ==
    [available_ports |-> <<>>, midi_inputs |-> <<>>, midi_devices |-> <<>>,
     midi_threads |-> <<>>]

\* get_port_count
get_port_count(a, n) == IF a = "unknown" THEN 0 ELSE n

\* init_midi: the lists it leaves behind.  create_midi_in raises for the
\* unknown API type; that and a failing port scan land in the outer except.
init_midi(a, n, scanFails, fails) ==
    IF a = "unknown" \/ scanFails THEN EmptyLists
    ELSE IF get_port_count(a, n) = 0 THEN EmptyLists
    ELSE InitLoop(a, 0, get_port_count(a, n), fails, EmptyLists)

\* __init__: init_midi runs only when a driver module was imported.
Constructed(a, n, scanFails, fails) ==
    IF a = "not-available" THEN EmptyLists ELSE init_midi(a, n, scanFails, fails)

\* An exception of init_midi that reaches the caller of the constructor.
ConstructRaises(a, n, scanFails, fails) == FALSE

\* The environment is drawn once, before construction.  Inputs the code never
\* looks at are pinned: no port data without a driver or after a failed scan,
\* no failure stage for a port that is not enumerated, and no failing
\* ignore_types where the code does not call the backend for it.
Init ==
    /\ api \in ApiTypes
    /\ portCount \in 0 .. NumPorts
    /\ tempFails \in BOOLEAN
    /\ portFail \in [Ports -> FailStages]
    /\ api \in {"not-available", "unknown"} => portCount = 0 /\ ~tempFails
    /\ tempFails => portCount = 0
    /\ \A i \in Ports : i >= portCount => portFail[i] = "none"
    /\ \A i \in Ports : portFail[i] = "configure" => api # "rtmidi-python"
    /\ mainpc = "new"
    /\ running = TRUE
    /\ connected = FALSE
    /\ midi_inputs = <<>>
    /\ midi_devices = <<>>
    /\ midi_threads = <<>>
    /\ available_ports = <<>>
    /\ cc_values = EmptyDict
    /\ last_cc = NoCc
    /\ cc_callbacks = EmptyDict
    /\ handle = [p \in Ports |-> "unopened"]
    /\ tpc = [p \in Ports |-> "none"]
    /\ tev = [p \in Ports |-> None]
    /\ tidx = [p \in Ports |-> 0]
    /\ calls = [p \in Ports |-> <<>>]
    /\ dirty = [p \in Ports |-> FALSE]
    /\ nmsgs = 0
    /\ raised = FALSE

\* Construct with the flag taken from the port scan instead of from the
\* inputs that were kept.
ConstructConnectedByCount ==
    /\ mainpc = "new"
    /\ LET r == Constructed(api, portCount, tempFails, portFail)
       IN /\ available_ports' = r.available_ports
          /\ midi_inputs' = r.midi_inputs
          /\ midi_devices' = r.midi_devices
          /\ midi_threads' = r.midi_threads
          /\ connected' = (Len(r.available_ports) > 0)
          /\ handle' = [p \in Ports |-> IF p \in Range(r.midi_inputs) THEN "open" ELSE "unopened"]
          /\ tpc' = [p \in Ports |-> IF p \in Range(r.midi_threads) THEN "loop" ELSE "none"]
    /\ raised' = (raised \/ ConstructRaises(api, portCount, tempFails, portFail))
    /\ mainpc' = "ready"
    /\ UNCHANGED <<envVars, running, storeVars, cc_callbacks, tev, tidx, calls, dirty, nmsgs>>

\* MidiManager(): __init__ and init_midi, threads started.  An input whose
\* open_port succeeded but whose ignore_types raised is dropped by the
\* per-port except clause: the manager keeps no handle for that port.
Construct ==
    /\ mainpc = "new"
    /\ LET r == Constructed(api, portCount, tempFails, portFail)
       IN /\ available_ports' = r.available_ports
          /\ midi_inputs' = r.midi_inputs
          /\ midi_devices' = r.midi_devices
          /\ midi_threads' = r.midi_threads
          /\ connected' = (Len(r.midi_inputs) > 0)
          /\ handle' = [p \in Ports |-> IF p \in Range(r.midi_inputs) THEN "open" ELSE "unopened"]
          /\ tpc' = [p \in Ports |-> IF p \in Range(r.midi_threads) THEN "loop" ELSE "none"]
    /\ raised' = (raised \/ ConstructRaises(api, portCount, tempFails, portFail))
    /\ mainpc' = "ready"
    /\ UNCHANGED <<envVars, running, storeVars, cc_callbacks, tev, tidx, calls, dirty, nmsgs>>

\* `while True:` in place of the test of the running flag.
LoopTestForever(p) ==
    /\ tpc[p] = "loop"
    /\ tpc' = [tpc EXCEPT ![p] = "read"]
    /\ UNCHANGED <<envVars, mainpc, running, connected, listVars, storeVars,
                   cc_callbacks, handle, tev, tidx, calls, dirty, nmsgs, raised>>

\* ------------------------------------------------------ the polling thread
\* `while self.running:`
LoopTest(p) ==
    /\ tpc[p] = "loop"
    /\ tpc' = [tpc EXCEPT ![p] = IF running THEN "read" ELSE "stopped"]
    /\ UNCHANGED <<envVars, mainpc, running, connected, listVars, storeVars,
                   cc_callbacks, handle, tev, tidx, calls, dirty, nmsgs, raised>>

\* get_message returns None: on to the sleep.
ReadNothing(p) ==
    /\ tpc[p] = "read"
    /\ tpc' = [tpc EXCEPT ![p] = "sleep"]
    /\ tev' = [tev EXCEPT ![p] = [kind |-> "nothing"]]
    /\ UNCHANGED <<envVars, mainpc, running, connected, listVars, storeVars,
                   cc_callbacks, handle, tidx, calls, dirty, nmsgs, raised>>

\* A read failure handled as fatal for the manager: it also clears running.
ReadRaisesStopsAll(p) ==
    /\ tpc[p] = "read"
    /\ tpc' = [tpc EXCEPT ![p] = "failed"]
    /\ running' = FALSE
    /\ UNCHANGED <<envVars, mainpc, connected, listVars, storeVars,
                   cc_callbacks, handle, tev, tidx, calls, dirty, nmsgs, raised>>

\* A read failure answered with `continue`: the thread tries again.
ReadRaisesRetry(p) ==
    /\ tpc[p] = "read"
    /\ tpc' = [tpc EXCEPT ![p] = "loop"]
    /\ UNCHANGED <<envVars, mainpc, running, connected, listVars, storeVars,
                   cc_callbacks, handle, tev, tidx, calls, dirty, nmsgs, raised>>

\* get_message raises: `except Exception: break`, the thread returns.
ReadRaises(p) ==
    /\ tpc[p] = "read"
    /\ tpc' = [tpc EXCEPT ![p] = "failed"]
    /\ UNCHANGED <<envVars, mainpc, running, connected, listVars, storeVars,
                   cc_callbacks, handle, tev, tidx, calls, dirty, nmsgs, raised>>

\* handle_midi_message without its try/except: an exception of the decoding
\* reaches process_midi's `except: break` and ends the thread.
DeliverUncaught(p, ev) ==
    /\ tpc[p] = "read"
    /\ handle[p] \in {"open", "close_failed"}
    /\ nmsgs < MaxMsgs
    /\ nmsgs' = nmsgs + 1
    /\ tev' = [tev EXCEPT ![p] = ev]
    /\ IF ev.kind = "cc"
       THEN /\ cc_values' = DictSet(cc_values, ev.cc, ev.value)
            /\ tpc' = [tpc EXCEPT ![p] = "last_cc"]
       ELSE /\ tpc' = [tpc EXCEPT ![p] = IF ev.kind = "error" THEN "failed" ELSE "sleep"]
            /\ UNCHANGED cc_values
    /\ UNCHANGED <<envVars, mainpc, running, connected, listVars, last_cc,
                   cc_callbacks, handle, tidx, calls, dirty, raised>>

\* The store keyed by (channel, controller) instead of the controller alone.
DeliverKeyedByChannel(p, ev) ==
    /\ tpc[p] = "read"
    /\ handle[p] \in {"open", "close_failed"}
    /\ nmsgs < MaxMsgs
    /\ nmsgs' = nmsgs + 1
    /\ tev' = [tev EXCEPT ![p] = ev]
    /\ IF ev.kind = "cc"
       THEN /\ cc_values' = DictSet(cc_values, ev.channel * 128 + ev.cc, ev.value)
            /\ tpc' = [tpc EXCEPT ![p] = "last_cc"]
       ELSE /\ tpc' = [tpc EXCEPT ![p] = "sleep"]
            /\ UNCHANGED cc_values
    /\ UNCHANGED <<envVars, mainpc, running, connected, listVars, last_cc,
                   cc_callbacks, handle, tidx, calls, dirty, raised>>

\* The handler calling trigger_callbacks first and writing the store and the
\* slot afterwards: the thread enters the dispatch with the store untouched.
DeliverDispatchFirst(p, ev) ==
    /\ tpc[p] = "read"
    /\ handle[p] \in {"open", "close_failed"}
    /\ nmsgs < MaxMsgs
    /\ nmsgs' = nmsgs + 1
    /\ tev' = [tev EXCEPT ![p] = ev]
    /\ tpc' = [tpc EXCEPT ![p] = IF ev.kind = "cc" THEN "dispatch" ELSE "sleep"]
    /\ UNCHANGED <<envVars, mainpc, running, connected, listVars, storeVars,
                   cc_callbacks, handle, tidx, calls, dirty, raised>>

\* get_message returns a message that decodes to ev: the handler up to and
\* including the write of cc_values, or up to its return when there is
\* nothing to store.
Deliver(p, ev) ==
    /\ tpc[p] = "read"
    /\ handle[p] \in {"open", "close_failed"}
    /\ nmsgs < MaxMsgs
    /\ nmsgs' = nmsgs + 1
    /\ tev' = [tev EXCEPT ![p] = ev]
    /\ IF ev.kind = "cc"
       THEN /\ cc_values' = DictSet(cc_values, ev.cc, ev.value)
            /\ tpc' = [tpc EXCEPT ![p] = "last_cc"]
       ELSE /\ tpc' = [tpc EXCEPT ![p] = "sleep"]
            /\ UNCHANGED cc_values
    /\ UNCHANGED <<envVars, mainpc, running, connected, listVars, last_cc,
                   cc_callbacks, handle, tidx, calls, dirty, raised>>

\* get_message returns msg.
ReadMessage(p, msg) == Deliver(p, handle_midi_message(api, msg))

\* The slot written only while it is empty: the first event stays.
WriteLastCcOnce(p) ==
    /\ tpc[p] = "last_cc"
    /\ last_cc' = IF last_cc = NoCc THEN <<tev[p].cc, tev[p].value>> ELSE last_cc
    /\ tpc' = [tpc EXCEPT ![p] = "dispatch"]
    /\ UNCHANGED <<envVars, mainpc, running, connected, listVars, cc_values,
                   cc_callbacks, handle, tev, tidx, calls, dirty, nmsgs, raised>>

\* `self.last_cc = (cc_number, cc_value)`
WriteLastCc(p) ==
    /\ tpc[p] = "last_cc"
    /\ last_cc' = <<tev[p].cc, tev[p].value>>
    /\ tpc' = [tpc EXCEPT ![p] = "dispatch"]
    /\ UNCHANGED <<envVars, mainpc, running, connected, listVars, cc_values,
                   cc_callbacks, handle, tev, tidx, calls, dirty, nmsgs, raised>>

\* trigger_callbacks dropping a callback from the list when its call raised.
InvokePruning(p) ==
    /\ tpc[p] = "dispatch"
    /\ HasNext(cc_callbacks, tev[p].cc, tidx[p])
    /\ LET cb == cc_callbacks[tev[p].cc][tidx[p] + 1]
           args == CallArgs(cb, tev[p].cc, tev[p].value, tev[p].channel, PortName(p))
       IN /\ calls' = [calls EXCEPT ![p] =
                         Append(@, [cb |-> cb, args |-> args, ran |-> Accepts(cb, args)])]
          /\ IF Raises(cb) \/ ~Accepts(cb, args)
             THEN /\ cc_callbacks' = unregister_cc_callback(cc_callbacks, tev[p].cc, cb)
                  /\ tidx' = tidx
             ELSE /\ cc_callbacks' = cc_callbacks
                  /\ tidx' = [tidx EXCEPT ![p] = AfterCall(cb, @)]
    /\ UNCHANGED <<envVars, mainpc, running, connected, listVars, storeVars,
                   handle, tpc, tev, dirty, nmsgs, raised>>

\* trigger_callbacks: one iteration of the for loop, the call included.
Invoke(p) ==
    /\ tpc[p] = "dispatch"
    /\ HasNext(cc_callbacks, tev[p].cc, tidx[p])
    /\ LET cb == cc_callbacks[tev[p].cc][tidx[p] + 1]
           args == CallArgs(cb, tev[p].cc, tev[p].value, tev[p].channel, PortName(p))
       IN /\ calls' = [calls EXCEPT ![p] =
                         Append(@, [cb |-> cb, args |-> args, ran |-> Accepts(cb, args)])]
          /\ tidx' = [tidx EXCEPT ![p] = AfterCall(cb, @)]
    /\ UNCHANGED <<envVars, mainpc, running, connected, listVars, storeVars,
                   cc_callbacks, handle, tpc, tev, dirty, nmsgs, raised>>

\* trigger_callbacks handing the calls to someone else and returning at
\* once: the thread moves on while callbacks of the event are outstanding.
DispatchDoneEarly(p) ==
    /\ tpc[p] = "dispatch"
    /\ tpc' = [tpc EXCEPT ![p] = "sleep"]
    /\ UNCHANGED <<envVars, mainpc, running, connected, listVars, storeVars,
                   cc_callbacks, handle, tev, tidx, calls, dirty, nmsgs, raised>>

\* trigger_callbacks returns: no list for the controller, or the iterator is
\* exhausted.  On to the sleep.
DispatchDone(p) ==
    /\ tpc[p] = "dispatch"
    /\ ~HasNext(cc_callbacks, tev[p].cc, tidx[p])
    /\ tpc' = [tpc EXCEPT ![p] = "sleep"]
    /\ UNCHANGED <<envVars, mainpc, running, connected, listVars, storeVars,
                   cc_callbacks, handle, tev, tidx, calls, dirty, nmsgs, raised>>

\* `time.sleep(0.001)`, then the next iteration: the message is dropped from
\* the thread's hand.
Sleep(p) ==
    /\ tpc[p] = "sleep"
    /\ tpc' = [tpc EXCEPT ![p] = "loop"]
    /\ tev' = [tev EXCEPT ![p] = None]
    /\ tidx' = [tidx EXCEPT ![p] = 0]
    /\ calls' = [calls EXCEPT ![p] = <<>>]
    /\ dirty' = [dirty EXCEPT ![p] = FALSE]
    /\ UNCHANGED <<envVars, mainpc, running, connected, listVars, storeVars,
                   cc_callbacks, handle, nmsgs, raised>>

\* ------------------------------------------------- the application thread
\* Threads with an event for controller c in hand.
Dispatching(c) ==
    {p \in Ports : tpc[p] \in {"last_cc", "dispatch", "sleep"}
                   /\ tev[p].kind = "cc" /\ tev[p].cc = c}

Register(c, f) ==
    /\ mainpc \in {"ready", "closed"}
    /\ TotalSubs < MaxSubs
    /\ cc_callbacks' = register_cc_callback(cc_callbacks, c, f)
    /\ dirty' = [p \in Ports |-> dirty[p] \/ p \in Dispatching(c)]
    /\ UNCHANGED <<envVars, mainpc, running, connected, listVars, storeVars,
                   handle, tpc, tev, tidx, calls, nmsgs, raised>>

\* unregister_cc_callback without its `in` tests: removing from a list that
\* is not there or does not hold the callback raises to the caller.
UnregisterUnguarded(c, f) ==
    /\ mainpc \in {"ready", "closed"}
    /\ cc_callbacks' = unregister_cc_callback(cc_callbacks, c, f)
    /\ raised' = (raised \/ cc_callbacks' = cc_callbacks)
    /\ dirty' = [p \in Ports |->
                   dirty[p] \/ (p \in Dispatching(c) /\ cc_callbacks' # cc_callbacks)]
    /\ UNCHANGED <<envVars, mainpc, running, connected, listVars, storeVars,
                   handle, tpc, tev, tidx, calls, nmsgs>>

Unregister(c, f) ==
    /\ mainpc \in {"ready", "closed"}
    /\ cc_callbacks' = unregister_cc_callback(cc_callbacks, c, f)
    /\ dirty' = [p \in Ports |->
                   dirty[p] \/ (p \in Dispatching(c) /\ cc_callbacks' # cc_callbacks)]
    /\ UNCHANGED <<envVars, mainpc, running, connected, listVars, storeVars,
                   handle, tpc, tev, tidx, calls, nmsgs, raised>>

\* get_cc written with dict.setdefault: a query for a controller never seen
\* stores the default.
GetSetDefault(c, d) ==
    /\ mainpc \in {"ready", "joining", "closed"}
    /\ cc_values' = IF c \in DOMAIN cc_values THEN cc_values ELSE DictSet(cc_values, c, d)
    /\ UNCHANGED <<envVars, mainpc, running, connected, listVars, last_cc,
                   cc_callbacks, handle, threadVars, nmsgs, raised>>

\* get_cc(c, d) called by the application: `self.cc_values.get(cc_number,
\* default)` reads the dict and changes nothing; what it returns is get_cc.
Get(c, d) ==
    /\ mainpc \in {"ready", "joining", "closed"}
    /\ UNCHANGED vars

\* close(), first statement: `self.running = False`.
CloseSignal ==
    /\ mainpc = "ready"
    /\ running' = FALSE
    /\ mainpc' = "joining"
    /\ UNCHANGED <<envVars, connected, listVars, storeVars, cc_callbacks,
                   handle, threadVars, nmsgs, raised>>

\* The closing loop of close() with the try around the whole loop: the first
\* close_port that raises leaves the later inputs as they are.
ClosePortsAbort(failing) ==
    [p \in Ports |->
        IF p \in Range(midi_inputs)
        THEN IF p \in failing THEN "close_failed"
             ELSE IF \E q \in failing : q < p THEN handle[p] ELSE "closed"
        ELSE handle[p]]

\* The handles after the loop `for midi_in in self.midi_inputs` of close(),
\* when close_port raises for the inputs in failing: the try/except inside
\* the loop goes on to the next input.
ClosePorts(failing) ==
    [p \in Ports |->
        IF p \in Range(midi_inputs)
        THEN IF p \in failing THEN "close_failed" ELSE "closed"
        ELSE handle[p]]

\* close() that reports self.midi_device when it is done: the attribute is
\* set by init_midi only when an input was kept, so the report raises
\* AttributeError on a manager without inputs.
CloseFinishReportsDevice ==
    /\ mainpc = "joining"
    /\ \E failing \in SUBSET Range(midi_inputs) : handle' = ClosePorts(failing)
    /\ connected' = FALSE
    /\ mainpc' = "closed"
    /\ raised' = (raised \/ midi_inputs = <<>>)
    /\ UNCHANGED <<envVars, running, listVars, storeVars, cc_callbacks,
                   threadVars, nmsgs>>

\* close(), the rest: each join has returned (the thread ended or the
\* one-second timeout ran out, wherever the thread is), close_port is called
\* on every input of midi_inputs and may raise, connected is cleared.
CloseFinish ==
    /\ mainpc = "joining"
    /\ \E failing \in SUBSET Range(midi_inputs) : handle' = ClosePorts(failing)
    /\ connected' = FALSE
    /\ mainpc' = "closed"
    /\ UNCHANGED <<envVars, running, listVars, storeVars, cc_callbacks,
                   threadVars, nmsgs, raised>>

\* close() called a second time, first statement: the flag is already false.
CloseAgainSignal ==
    /\ mainpc = "closed"
    /\ running' = FALSE
    /\ mainpc' = "joining_again"
    /\ UNCHANGED <<envVars, connected, listVars, storeVars, cc_callbacks,
                   handle, threadVars, nmsgs, raised>>

\* The handles after the closing loop of a second close(): close_port on a
\* handle that is already closed leaves it closed whether the backend raises
\* or not; a handle whose first close_port failed is tried again.
ClosePortsAgain(failing) ==
    [p \in Ports |->
        IF p \in Range(midi_inputs) /\ handle[p] # "closed"
        THEN IF p \in failing THEN "close_failed" ELSE "closed"
        ELSE handle[p]]

\* The second close() without the try around close_port: a backend that
\* raises on a handle already closed makes close() raise.
CloseAgainFinishUncaught ==
    /\ mainpc = "joining_again"
    /\ \E failing \in SUBSET Range(midi_inputs) : handle' = ClosePortsAgain(failing)
    /\ connected' = FALSE
    /\ mainpc' = "closed_again"
    /\ raised' = (raised \/ \E p \in Range(midi_inputs) : handle[p] = "closed")
    /\ UNCHANGED <<envVars, running, listVars, storeVars, cc_callbacks,
                   threadVars, nmsgs>>

\* The second close(), the rest: joins, close_port on every input inside its
\* own try, connected cleared again.
CloseAgainFinish ==
    /\ mainpc = "joining_again"
    /\ \E failing \in SUBSET Range(midi_inputs) : handle' = ClosePortsAgain(failing)
    /\ connected' = FALSE
    /\ mainpc' = "closed_again"
    /\ UNCHANGED <<envVars, running, listVars, storeVars, cc_callbacks,
                   threadVars, nmsgs, raised>>

\* The whole system: any device, any call of the application that changes
\* something, at any time.
Next ==
    \/ Construct
    \/ \E p \in Ports : LoopTest(p)
    \/ \E p \in Ports : ReadNothing(p)
    \/ \E p \in Ports : ReadRaises(p)
    \/ \E p \in Ports : \E ev \in Decoded(api) : Deliver(p, ev)
    \/ \E p \in Ports : WriteLastCc(p)
    \/ \E p \in Ports : Invoke(p)
    \/ \E p \in Ports : DispatchDone(p)
    \/ \E p \in Ports : Sleep(p)
    \/ \E c \in SubCCs : \E f \in Callbacks : Register(c, f)
    \/ \E c \in SubCCs : \E f \in Callbacks : Unregister(c, f)
    \/ CloseSignal
    \/ CloseFinish

Spec == Init /\ [][Next]_vars

\* One device: the backend enumerates at most one port.  Every operation of
\* the manager, with subscriptions changing while the device delivers.
InitOne == Init /\ portCount <= 1

SpecOne == InitOne /\ [][Next]_vars

\* A pair of devices polled concurrently (the backend enumerates at most two
\* ports); the application subscribes before the first message arrives and
\* leaves the registry alone afterwards.
RegisterEarly(c, f) == nmsgs = 0 /\ Register(c, f)
UnregisterEarly(c, f) == nmsgs = 0 /\ Unregister(c, f)

NextDevices ==
    \/ Construct
    \/ \E p \in Ports : LoopTest(p)
    \/ \E p \in Ports : ReadNothing(p)
    \/ \E p \in Ports : ReadRaises(p)
    \/ \E p \in Ports : \E ev \in Decoded(api) : Deliver(p, ev)
    \/ \E p \in Ports : WriteLastCc(p)
    \/ \E p \in Ports : Invoke(p)
    \/ \E p \in Ports : DispatchDone(p)
    \/ \E p \in Ports : Sleep(p)
    \/ \E c \in SubCCs : \E f \in Callbacks : RegisterEarly(c, f)
    \/ \E c \in SubCCs : \E f \in Callbacks : UnregisterEarly(c, f)

InitDevices == Init /\ portCount <= 2

SpecDevices == InitDevices /\ [][NextDevices]_vars

\* One device and subscribers of every declared parameter count, subscribed
\* before the first message.
RegisterAny(c, f) == nmsgs = 0 /\ Register(c, f)

NextArity ==
    \/ Construct
    \/ \E p \in Ports : LoopTest(p)
    \/ \E p \in Ports : ReadNothing(p)
    \/ \E p \in Ports : ReadRaises(p)
    \/ \E p \in Ports : \E ev \in Decoded(api) : Deliver(p, ev)
    \/ \E p \in Ports : WriteLastCc(p)
    \/ \E p \in Ports : Invoke(p)
    \/ \E p \in Ports : DispatchDone(p)
    \/ \E p \in Ports : Sleep(p)
    \/ \E c \in SubCCs : \E f \in AllCallbacks : RegisterAny(c, f)

SpecArity == InitOne /\ [][NextArity]_vars

\* One device and an application that queries the store at any time, before
\* and after close(), and never subscribes.
NextQuery ==
    \/ Construct
    \/ \E p \in Ports : LoopTest(p)
    \/ \E p \in Ports : ReadNothing(p)
    \/ \E p \in Ports : ReadRaises(p)
    \/ \E p \in Ports : \E ev \in Decoded(api) : Deliver(p, ev)
    \/ \E p \in Ports : WriteLastCc(p)
    \/ \E p \in Ports : DispatchDone(p)
    \/ \E p \in Ports : Sleep(p)
    \/ \E c \in CtrlSamples : \E d \in Defaults : Get(c, d)
    \/ CloseSignal
    \/ CloseFinish

SpecQuery == InitOne /\ [][NextQuery]_vars

\* Startup and shutdown in every environment, devices silent.
NextLifecycle ==
    \/ Construct
    \/ \E p \in Ports : LoopTest(p)
    \/ \E p \in Ports : ReadNothing(p)
    \/ \E p \in Ports : ReadRaises(p)
    \/ \E p \in Ports : Sleep(p)
    \/ CloseSignal
    \/ CloseFinish

SpecLifecycle == Init /\ [][NextLifecycle]_vars

\* A pair of devices sending Control Change messages on two MIDI channels
\* (status bytes 0xB2 and 0xB5); the application only queries the store.
ChannelStatus == {178, 181}
ChannelData == {<<s, c, v>> : s \in ChannelStatus, c \in CtrlSamples, v \in ValueSamples}

NextChannels ==
    \/ Construct
    \/ \E p \in Ports : LoopTest(p)
    \/ \E p \in Ports : ReadNothing(p)
    \/ \E p \in Ports : \E sh \in Shapes(api) : \E d \in ChannelData :
           ReadMessage(p, [shape |-> sh, data |-> d])
    \/ \E p \in Ports : WriteLastCc(p)
    \/ \E p \in Ports : DispatchDone(p)
    \/ \E p \in Ports : Sleep(p)
    \/ \E c \in CtrlSamples : \E d \in Defaults : Get(c, d)

SpecChannels == InitDevices /\ [][NextChannels]_vars

\* One device, callbacks subscribed before its first message, and an
\* application that calls close() twice.
NextReclose ==
    \/ Construct
    \/ \E p \in Ports : LoopTest(p)
    \/ \E p \in Ports : ReadNothing(p)
    \/ \E p \in Ports : ReadRaises(p)
    \/ \E p \in Ports : \E ev \in Decoded(api) : Deliver(p, ev)
    \/ \E p \in Ports : WriteLastCc(p)
    \/ \E p \in Ports : Invoke(p)
    \/ \E p \in Ports : DispatchDone(p)
    \/ \E p \in Ports : Sleep(p)
    \/ \E c \in SubCCs : \E f \in Callbacks : RegisterEarly(c, f)
    \/ CloseSignal
    \/ CloseFinish
    \/ CloseAgainSignal
    \/ CloseAgainFinish

SpecReclose == InitOne /\ [][NextReclose]_vars

\* One device, callbacks subscribed before its first message, and an
\* application that unsubscribes at any time, also while an event is being
\* dispatched (from its render loop or from inside a callback).
NextDetach ==
    \/ Construct
    \/ \E p \in Ports : LoopTest(p)
    \/ \E p \in Ports : ReadNothing(p)
    \/ \E p \in Ports : \E ev \in Decoded(api) : Deliver(p, ev)
    \/ \E p \in Ports : WriteLastCc(p)
    \/ \E p \in Ports : Invoke(p)
    \/ \E p \in Ports : DispatchDone(p)
    \/ \E p \in Ports : Sleep(p)
    \/ \E c \in SubCCs : \E f \in Callbacks : RegisterEarly(c, f)
    \/ \E c \in SubCCs : \E f \in Callbacks : Unregister(c, f)

SpecDetach == InitOne /\ [][NextDetach]_vars

\* One device, and an application that subscribes before the first message
\* and again while an event of the controller is being dispatched, after a
\* callback of that event was already called (from its render loop, or from
\* inside that callback); it never unsubscribes.
RegisterDuring(c, f) ==
    /\ \E p \in Ports : tpc[p] = "dispatch" /\ tev[p].cc = c /\ tidx[p] >= 1
    /\ Register(c, f)

NextAttach ==
    \/ Construct
    \/ \E p \in Ports : LoopTest(p)
    \/ \E p \in Ports : ReadNothing(p)
    \/ \E p \in Ports : \E ev \in Decoded(api) : Deliver(p, ev)
    \/ \E p \in Ports : WriteLastCc(p)
    \/ \E p \in Ports : Invoke(p)
    \/ \E p \in Ports : DispatchDone(p)
    \/ \E p \in Ports : Sleep(p)
    \/ \E c \in SubCCs : \E f \in Callbacks : RegisterEarly(c, f)
    \/ \E c \in SubCCs : \E f \in Callbacks : RegisterDuring(c, f)

SpecAttach == InitOne /\ [][NextAttach]_vars

\* The application: VideoSynthesizer.__init__ constructs the manager, which
\* starts the polling threads, and afterwards, when the manager reports
\* connected, subscribes its brightness handler to controller 7; quit()
\* closes the manager.
SubscribeBrightness ==
    /\ connected
    /\ cc_callbacks = EmptyDict
    /\ Register(7, "handle_brightness_cc")

NextApp ==
    \/ Construct
    \/ \E p \in Ports : LoopTest(p)
    \/ \E p \in Ports : ReadNothing(p)
    \/ \E p \in Ports : ReadRaises(p)
    \/ \E p \in Ports : \E ev \in Decoded(api) : Deliver(p, ev)
    \/ \E p \in Ports : WriteLastCc(p)
    \/ \E p \in Ports : Invoke(p)
    \/ \E p \in Ports : DispatchDone(p)
    \/ \E p \in Ports : Sleep(p)
    \/ SubscribeBrightness
    \/ CloseSignal
    \/ CloseFinish

SpecApp == InitDevices /\ [][NextApp]_vars

\* The application with its threads scheduled fairly.  Each polling thread is
\* a daemon thread the interpreter keeps scheduling, and none of its steps
\* blocks: get_message polls, the sleep is 1 ms, and the brightness handler
\* returns.
ThreadStep(p) ==
    \/ LoopTest(p)
    \/ ReadNothing(p)
    \/ ReadRaises(p)
    \/ \E ev \in Decoded(api) : Deliver(p, ev)
    \/ WriteLastCc(p)
    \/ Invoke(p)
    \/ DispatchDone(p)
    \/ Sleep(p)

SpecShutdown ==
    /\ InitDevices
    /\ [][NextApp]_vars
    /\ \A p \in Ports : WF_vars(ThreadStep(p))

\* ====================================================================
\* Properties
\* ====================================================================
CallbackSeq(p) == [i \in 1 .. Len(calls[p]) |-> calls[p][i].cb]
Subscribers(c) == IF c \in DOMAIN cc_callbacks THEN cc_callbacks[c] ELSE <<>>

\* A well-formed Control Change message [0xB0 | ch, cc, v].
IsControlChange(data) ==
    /\ Len(data) = 3
    /\ data[1] \in 176 .. 191
    /\ data[2] \in 0 .. 127
    /\ data[3] \in 0 .. 127

\* C1: a read of the raw message [0xB0|ch, cc, v] by any session yields the
\* event (cc, v, ch) and leaves get(cc, d) = v for every default d; every
\* callback is handed the event's controller number, value and channel; and
\* the value stored for a controller changes only when a session stores an
\* event for that controller, so it stays v until a later event for cc.
C1_ControlChangeStored ==
    [][ /\ \A p \in Ports : tpc[p] = "read" => \A msg \in Messages(api) :
             (IsControlChange(msg.data) /\ ReadMessage(p, msg)) =>
                 /\ tev'[p] = [kind |-> "cc", cc |-> msg.data[2], value |-> msg.data[3],
                               channel |-> msg.data[1] - 176]
                 /\ \A d \in Defaults : get_cc(msg.data[2], d)' = msg.data[3]
        /\ \A p \in Ports :
             Len(calls'[p]) = Len(calls[p]) + 1 =>
                 LET call == calls'[p][Len(calls'[p])]
                 IN /\ call.args[1] = tev[p].cc
                    /\ call.args[2] = tev[p].value
                    /\ call.args[3] = tev[p].channel
        /\ \A c \in DOMAIN cc_values :
             /\ c \in DOMAIN cc_values'
             /\ cc_values'[c] # cc_values[c] =>
                    \E p \in Ports : /\ tpc[p] = "read" /\ tpc'[p] = "last_cc"
                                     /\ tev'[p].cc = c /\ tev'[p].value = cc_values'[c]
      ]_vars

\* C1 witness: the event of [0xB5, 7, 64] is fully processed, a callback was
\* called for it and the store answers 64 for controller 7.
C1_Witness ==
    \E p \in Ports :
        /\ tpc[p] = "sleep"
        /\ tev[p] = [kind |-> "cc", cc |-> 7, value |-> 64, channel |-> 5]
        /\ Len(calls[p]) >= 1
        /\ \A d \in Defaults : get_cc(7, d) = 64

NotAControlChange(data) ==
    /\ Len(data) >= 1
    /\ (data[1] \div 16 # 11 \/ Len(data) = 2)

\* C3: a message that is not a Control Change of at least 3 bytes never
\* populates the store, never changes the last-event slot and never triggers
\* a callback.
C3_OnlyControlChange ==
    [][ \A p \in Ports : tpc[p] = "read" => \A msg \in Messages(api) :
          (NotAControlChange(msg.data) /\ ReadMessage(p, msg)) =>
              /\ tpc'[p] = "sleep"
              /\ UNCHANGED <<cc_values, last_cc, calls>>
      ]_vars

\* C4: when the dispatch of one event is over and the controller's list was
\* not changed meanwhile, the callbacks called are exactly the controller's
\* subscribers, each once, in subscription order: none is skipped after one
\* that raises, and no subscriber of another controller is called.
C4_DispatchInOrder ==
    \A p \in Ports :
        (tpc[p] = "sleep" /\ tev[p].kind = "cc" /\ ~dirty[p]) =>
            CallbackSeq(p) = Subscribers(tev[p].cc)

\* C4 witness: two subscribers of one controller, the first one raises, and
\* both were called, in order.
C4_Witness ==
    \E p \in Ports :
        /\ tpc[p] = "sleep" /\ tev[p].kind = "cc" /\ ~dirty[p]
        /\ Raises("g")
        /\ CallbackSeq(p) = <<"g", "f">>

\* C5: after unsubscribe(c, f) the function f is on no list of c any more,
\* the other subscribers of c keep their multiplicity and order, and the
\* lists of the other controllers are untouched.
C5_UnsubscribeStopsDispatch ==
    [][ \A c \in SubCCs : \A f \in Callbacks :
          Unregister(c, f) =>
              /\ DOMAIN cc_callbacks' = DOMAIN cc_callbacks
              /\ \A k \in DOMAIN cc_callbacks :
                    cc_callbacks'[k] =
                        IF k = c THEN SelectSeq(cc_callbacks[k], LAMBDA x : x # f)
                        ELSE cc_callbacks[k]
      ]_vars

\* C6: the last-event slot is written by every event, unconditionally and
\* whatever device produced it, and by nothing else: after two sessions have
\* each processed an event it holds the event whose write came second.
C6_LastEventOverwritten ==
    [][ /\ \A p \in Ports :
             (tpc[p] = "last_cc" /\ tpc'[p] = "dispatch") =>
                 last_cc' = <<tev[p].cc, tev[p].value>>
        /\ last_cc' # last_cc =>
             \E p \in Ports : tpc[p] = "last_cc" /\ tpc'[p] = "dispatch"
      ]_vars

\* C6 witness: both sessions have fully processed different events and the
\* slot holds the event of session 1, which wrote it after session 0 did.
C6_Witness ==
    /\ tpc[0] = "sleep" /\ tev[0].kind = "cc"
    /\ tpc[1] = "sleep" /\ tev[1].kind = "cc"
    /\ <<tev[0].cc, tev[0].value>> # <<tev[1].cc, tev[1].value>>
    /\ last_cc = <<tev[1].cc, tev[1].value>>

\* The environments without a usable backend: no driver module, a module of
\* unknown shape, or a port scan that raises.
NoBackend == api \in {"not-available", "unknown"} \/ tempFails

\* C7: without a usable backend the constructed manager has no device, no
\* open input and no polling thread, and whatever is subscribed,
\* unsubscribed or closed afterwards, get(cc, d) answers d, the last-event
\* slot stays empty and no exception reaches the caller.
C7_NoBackendNoOp ==
    (NoBackend /\ mainpc # "new") =>
        /\ midi_devices = <<>> /\ midi_inputs = <<>> /\ midi_threads = <<>>
        /\ ~connected
        /\ \A p \in Ports : tpc[p] = "none" /\ handle[p] = "unopened"
        /\ \A cc \in CtrlSamples \cup SubCCs : \A d \in Defaults : get_cc(cc, d) = d
        /\ last_cc = NoCc
        /\ ~raised

\* C7 witness: a driver module of unknown shape, and the application has
\* subscribed and closed the manager.
C7_Witness ==
    /\ api = "unknown"
    /\ mainpc = "closed"
    /\ TotalSubs > 0

\* C8: every key and value of the store, both fields of the last-event
\* slot and the controller number and value handed to a callback lie in
\* 0..127, so the store has at most 128 entries.
C8_ValuesClamped ==
    /\ \A c \in DOMAIN cc_values : c \in 0 .. 127 /\ cc_values[c] \in 0 .. 127
    /\ last_cc # NoCc => last_cc[1] \in 0 .. 127 /\ last_cc[2] \in 0 .. 127
    /\ \A p \in Ports : \A i \in 1 .. Len(calls[p]) :
          calls[p][i].args[1] \in 0 .. 127 /\ calls[p][i].args[2] \in 0 .. 127
    /\ Cardinality(DOMAIN cc_values) <= 128

\* Port i is enumerated and its input was opened and configured.
OpenedOk(i) == i < portCount /\ (~PortRaises(api, portFail[i]) \/ portFail[i] = "thread")

\* C9: with a usable backend, the inputs kept after startup are exactly the
\* enumerated ports that opened, in enumeration order, the device list is
\* their names, and every port whose iteration did not raise is open and has
\* its own polling thread, whatever happened to the other ports.
C9_PortFailureSkipped ==
    (mainpc # "new" /\ ~NoBackend) =>
        /\ Range(midi_inputs) = {i \in Ports : OpenedOk(i)}
        /\ \A k \in 1 .. (Len(midi_inputs) - 1) : midi_inputs[k] < midi_inputs[k + 1]
        /\ midi_devices = [k \in 1 .. Len(midi_inputs) |-> PortName(midi_inputs[k])]
        /\ \A i \in Ports :
              (i < portCount /\ ~PortRaises(api, portFail[i])) =>
                  /\ handle[i] # "unopened"
                  /\ tpc[i] # "none"
                  /\ i \in Range(midi_threads)

\* C9 witness: port 0 fails to open, port 1 is open, listed and polled.
C9_Witness ==
    /\ mainpc = "ready"
    /\ portCount >= 2
    /\ portFail[0] = "open" /\ portFail[1] = "none"
    /\ midi_devices[1] = PortName(1)
    /\ handle[1] = "open"
    /\ tpc[1] = "read"

\* C10: the step on which a read raises ends that session's thread and
\* touches nothing else: the other threads stay where they are, running is
\* not cleared, nothing reaches a caller; and next to a failed session the
\* others still store their events and call every subscriber.
C10_ReadFailureIsolated ==
    /\ [][ \A p \in Ports :
             (tpc[p] = "read" /\ tpc'[p] = "failed") =>
                 /\ \A q \in Ports \ {p} : tpc'[q] = tpc[q]
                 /\ UNCHANGED <<running, connected, raised, cc_values, last_cc,
                                cc_callbacks, handle, tev, tidx, calls>>
         ]_vars
    /\ [](~raised)
    /\ [](\A p \in Ports : \A q \in Ports \ {p} :
             (tpc[p] = "failed" /\ tpc[q] = "sleep" /\ tev[q].kind = "cc") =>
                 /\ tev[q].cc \in DOMAIN cc_values
                 /\ CallbackSeq(q) = Subscribers(tev[q].cc))

\* C10 witness: session 0 has failed; session 1 has processed an event that
\* is in the store and was handed to a subscriber.
C10_Witness ==
    /\ tpc[0] = "failed"
    /\ tpc[1] = "sleep" /\ tev[1].kind = "cc"
    /\ get_cc(tev[1].cc, 0) = tev[1].value
    /\ Len(calls[1]) >= 1

\* The polling thread of port p has ended.
Exited(p) == tpc[p] \in {"none", "stopped", "failed"}

C12_CloseWithoutDevices ==
    [][ (midi_inputs = <<>> /\ mainpc \in {"ready", "joining"} /\ mainpc' # mainpc) =>
            /\ UNCHANGED <<cc_values, last_cc, cc_callbacks, handle, tpc>>
            /\ ~raised'
            /\ ~connected /\ ~connected'
      ]_vars

\* C12 witness: the backend enumerated a port that failed to open, the
\* application subscribed, and close() has returned.
C12_Witness ==
    /\ mainpc = "closed"
    /\ portCount >= 1 /\ portFail[0] = "open"
    /\ midi_inputs = <<>>
    /\ TotalSubs > 0
    /\ ~connected

\* C13: a message whose decoding raises is dropped with the thread on its
\* way to the next iteration; a thread that has a message in hand never ends
\* before its next loop test, whatever the callbacks do; a raising callback
\* leaves the loop at the next list index; nothing of a message survives into
\* the next iteration, so the next Control Change is stored and dispatched to
\* every subscriber like the first.
C13_ExceptionsDiscarded ==
    /\ [][ \A p \in Ports :
             /\ (tpc[p] = "read" /\ tev'[p].kind = "error") =>
                    /\ tpc'[p] = "sleep"
                    /\ UNCHANGED <<cc_values, last_cc, cc_callbacks, running, raised>>
             /\ tpc[p] \in {"last_cc", "dispatch", "sleep"} =>
                    tpc'[p] \in {"last_cc", "dispatch", "sleep", "loop"}
             /\ (Len(calls'[p]) = Len(calls[p]) + 1
                 /\ Raises(calls'[p][Len(calls'[p])].cb)) =>
                    /\ tpc'[p] = "dispatch"
                    /\ tidx'[p] = tidx[p] + 1
                    /\ UNCHANGED <<running, raised, cc_values, last_cc, cc_callbacks>>
         ]_vars
    /\ [](\A p \in Ports :
             tpc[p] \in {"loop", "read"} =>
                 tev[p] = None /\ tidx[p] = 0 /\ calls[p] = <<>>)
    /\ [](\A p \in Ports :
             (tpc[p] = "sleep" /\ tev[p].kind = "cc") =>
                 /\ get_cc(tev[p].cc, 0) \in ValueSamples
                 /\ ~dirty[p] => CallbackSeq(p) = Subscribers(tev[p].cc))

\* C13 witness: one device, the registry fixed before its first message: its
\* event for controller 64 went to the raising callback, and its next event,
\* for controller 7, is stored and was handed to f.
C13_Witness ==
    /\ portCount = 1
    /\ Subscribers(64) = <<"g">>
    /\ 64 \in DOMAIN cc_values
    /\ tpc[0] = "sleep" /\ tev[0].kind = "cc" /\ tev[0].cc = 7
    /\ get_cc(7, 0) = tev[0].value
    /\ CallbackSeq(0) = <<"f">>

\* Number of times callback f is in the list of controller c.
Occurrences(reg, c, f) ==
    IF c \in DOMAIN reg THEN Cardinality({i \in 1 .. Len(reg[c]) : reg[c][i] = f}) ELSE 0

\* C14: unsubscribing a callback that is not in the controller's list (the
\* controller has no list, the list never held it, or it was removed) gives
\* back the same registry; when the list holds it once, unsubscribing twice
\* gives the registry of unsubscribing once; and no step of the application
\* that leaves the registry as it is changes the store or the slot or raises.
C14_UnsubscribeAbsentIsNoOp ==
    /\ [](\A c \in SubCCs : \A f \in Callbacks :
             LET once == unregister_cc_callback(cc_callbacks, c, f)
             IN /\ Occurrences(cc_callbacks, c, f) = 0 => once = cc_callbacks
                /\ Occurrences(cc_callbacks, c, f) = 1 =>
                       /\ Occurrences(once, c, f) = 0
                       /\ unregister_cc_callback(once, c, f) = once)
    /\ [][ (\A p \in Ports : tpc'[p] = tpc[p]) => UNCHANGED <<cc_values, last_cc, raised>> ]_vars
    /\ [](~raised)

\* C14 witness: controller 7 has a list from which its only callback was
\* removed, next to a stored value and another subscription: unsubscribing
\* from 7 again, or from 64 a callback it never had, finds nothing.
C14_Witness ==
    /\ 7 \in DOMAIN cc_callbacks /\ cc_callbacks[7] = <<>>
    /\ Subscribers(64) = <<"f">>
    /\ cc_values # EmptyDict
    /\ last_cc # NoCc

\* C15: one event's write of cc_values and of last_cc is a single atomic
\* update with respect to the other threads: whenever no thread is between
\* its two writes, the last-event slot names a controller whose stored value
\* is the slot's value.
C15_StoreUpdateAtomic ==
    (\A p \in Ports : tpc[p] # "last_cc") =>
        (last_cc # NoCc =>
            /\ last_cc[1] \in DOMAIN cc_values
            /\ cc_values[last_cc[1]] = last_cc[2])

\* C16: a thread reads only from the top of its loop, with nothing of an
\* earlier message in hand; the message it reads is stored on that step, the
\* slot is written next, then the callbacks are called with that message's
\* fields, and the thread returns to the top of the loop only after the
\* subscriber list is exhausted.  So everything done for one message is done
\* before the same thread reads the next.
C16_InlineInReadOrder ==
    [][ \A p \in Ports :
          /\ (tpc'[p] = "read" /\ tpc[p] # "read") => tpc[p] = "loop"
          /\ (tpc[p] = "read" /\ tpc'[p] # "read") =>
                 tev[p] = None /\ calls[p] = <<>> /\ tidx[p] = 0
          /\ (tpc[p] = "read" /\ tpc'[p] = "last_cc") =>
                 /\ tev'[p].kind = "cc"
                 /\ tev'[p].cc \in DOMAIN cc_values'
                 /\ cc_values'[tev'[p].cc] = tev'[p].value
          /\ (tpc'[p] = "dispatch" /\ tpc[p] # "dispatch") =>
                 /\ tpc[p] = "last_cc"
                 /\ tev'[p] = tev[p]
                 /\ last_cc' = <<tev[p].cc, tev[p].value>>
          /\ Len(calls'[p]) > Len(calls[p]) =>
                 /\ tpc[p] = "dispatch" /\ tpc'[p] = "dispatch"
                 /\ tev'[p] = tev[p]
                 /\ calls'[p][Len(calls'[p])].args[1] = tev[p].cc
                 /\ calls'[p][Len(calls'[p])].args[2] = tev[p].value
          /\ (tpc'[p] = "sleep" /\ tpc[p] # "sleep") =>
                 \/ tpc[p] = "read" /\ tev'[p].kind # "cc"
                 \/ /\ tpc[p] = "dispatch"
                    /\ ~HasNext(cc_callbacks, tev[p].cc, tidx[p])
          /\ (tpc'[p] = "loop" /\ tpc[p] \notin {"loop", "none"}) => tpc[p] = "sleep"
      ]_vars

\* C16 witness: one device has delivered two Control Changes, for different
\* controllers; both are in the store, and the second is in the slot and was
\* handed to a subscriber.
C16_Witness ==
    /\ portCount = 1
    /\ DOMAIN cc_values = {7, 64}
    /\ tpc[0] = "sleep" /\ tev[0].kind = "cc"
    /\ get_cc(tev[0].cc, 0) = tev[0].value
    /\ last_cc = <<tev[0].cc, tev[0].value>>
    /\ Len(calls[0]) >= 1

\* C17: the store changes only on the step on which a thread stores the
\* event it has read, and then only at that event's controller, so no query
\* changes it and a controller is in the store exactly when an event for it
\* was processed; get answers the stored value for a controller in the
\* store, whatever the default, and the caller's default otherwise, so two
\* queries with different defaults for an unseen controller answer each its
\* own default; nothing is raised.
C17_GetReadsOnly ==
    /\ [][ cc_values' # cc_values =>
             \E p \in Ports :
                 /\ tpc[p] = "read" /\ tpc'[p] = "last_cc"
                 /\ cc_values' = DictSet(cc_values, tev'[p].cc, tev'[p].value)
         ]_vars
    /\ [](nmsgs = 0 => cc_values = EmptyDict)
    /\ [](\A c \in CtrlSamples : \A d \in Defaults :
             /\ c \in DOMAIN cc_values => get_cc(c, d) = cc_values[c]
             /\ c \notin DOMAIN cc_values => get_cc(c, d) = d)
    /\ [](~raised)

\* C17 witness: controller 7 holds 200 and controller 64 was never seen: a
\* query for 7 answers 200 with either default, a query for 64 answers 0
\* with default 0 and 64 with default 64.
C17_Witness ==
    /\ mainpc = "ready"
    /\ DOMAIN cc_values = {7}
    /\ get_cc(7, 0) = 200 /\ get_cc(7, 64) = 200
    /\ get_cc(64, 0) = 0 /\ get_cc(64, 64) = 64

\* C18: every call the dispatcher makes enters the callback: a callback
\* declaring four parameters is handed (cc, value, channel, device name),
\* one declaring fewer is handed the arguments without the device name, and
\* the call binds whatever the declared count.
C18_EveryCallbackInvocable ==
    \A p \in Ports : \A i \in 1 .. Len(calls[p]) :
        LET call == calls[p][i]
        IN /\ NParams(call.cb) >= 4 =>
                  call.args = <<tev[p].cc, tev[p].value, tev[p].channel, PortName(p)>>
           /\ NParams(call.cb) < 4 => call.args[1] = tev[p].cc /\ call.args[2] = tev[p].value
           /\ call.ran

\* C19: a thread exists only for an opened input; a handle only moves from
\* unopened to open to closed, a thread that has ended stays ended, and once
\* the input of a session is closed, or its thread has ended, no read of
\* that input is made.
C19_SessionForwardOnly ==
    [][ \A p \in Ports :
          /\ tpc'[p] # "none" => handle'[p] # "unopened"
          /\ handle[p] # "unopened" => handle'[p] # "unopened"
          /\ handle[p] \in {"closed", "close_failed"} => handle'[p] = handle[p]
          /\ Exited(p) /\ mainpc # "new" => tpc'[p] = tpc[p]
          /\ (handle[p] = "closed" \/ Exited(p)) => ~(tpc[p] = "read" /\ tpc'[p] # "read")
      ]_vars

\* C20: a read ends in a message, in nothing or in the end of the thread,
\* never in another attempt; a thread that ended on a read failure stays
\* ended; and after construction the port lists and the environment they
\* were built from never change, no handle becomes open and no thread comes
\* into being.
C20_NoRetryNoRediscovery ==
    [][ \A p \in Ports :
          /\ (tpc[p] = "read" /\ tpc'[p] # "read") =>
                 \/ tpc'[p] = "failed" /\ tev'[p] = tev[p]
                 \/ tpc'[p] \in {"sleep", "last_cc"} /\ tev'[p] # None
          /\ tpc[p] = "failed" => tpc'[p] = "failed" /\ tev'[p] = tev[p]
          /\ mainpc # "new" =>
                 /\ UNCHANGED <<available_ports, midi_inputs, midi_devices, midi_threads>>
                 /\ handle'[p] = "open" => handle[p] = "open"
                 /\ tpc[p] = "none" => tpc'[p] = "none"
      ]_vars

\* C20 witness: the only device's thread ended on a read failure after an
\* event of it was stored; the application has subscribed and closed the
\* manager, and the thread is still ended.
C20_Witness ==
    /\ tpc[0] = "failed"
    /\ cc_values # EmptyDict
    /\ TotalSubs > 0
    /\ mainpc = "closed"
    /\ handle[0] = "closed"

\* C21: after construction the connected flag is true exactly when at least
\* one port was opened successfully; no event, subscription, read failure or
\* any other step but the end of close() changes it, and once close() has
\* returned it is false.
C21_ConnectedFlag ==
    /\ [](mainpc \in {"ready", "joining"} => (connected <=> \E i \in Ports : OpenedOk(i)))
    /\ [](mainpc = "closed" => ~connected)
    /\ [][mainpc' = mainpc => connected' = connected]_vars

\* C21 witness: the manager is connected and in use after its only thread
\* ended on a read failure, with an event stored and a subscription made.
C21_Witness ==
    /\ mainpc = "ready"
    /\ connected
    /\ tpc[0] = "failed"
    /\ cc_values # EmptyDict
    /\ TotalSubs > 0

\* C22: every controller-7 event a polling thread has finished processing
\* after the manager was constructed has invoked the application's
\* brightness handler with the value of that event.
C22_BrightnessFollows ==
    \A p \in Ports :
        (tpc[p] = "sleep" /\ tev[p].kind = "cc" /\ tev[p].cc = 7) =>
            \E i \in 1 .. Len(calls[p]) :
                /\ calls[p][i].cb = "handle_brightness_cc"
                /\ calls[p][i].ran
                /\ calls[p][i].args[2] = tev[p].value

\* C23: the registry changes only in a step that is one subscribe or one
\* unsubscribe call and touches nothing else of the manager; a step of a
\* polling thread (a dispatch, a callback raising, a read failure) and
\* close() leave every list as it was, and a callback that was just invoked,
\* raising or not, is still at its position afterwards.
C23_RegistryFrame ==
    [][ /\ cc_callbacks' # cc_callbacks =>
            /\ UNCHANGED <<mainpc, running, connected, handle, tpc, tev, tidx,
                           calls, cc_values, last_cc, nmsgs, raised>>
            /\ \E c \in SubCCs : \E f \in Callbacks :
                   \/ cc_callbacks' = register_cc_callback(cc_callbacks, c, f)
                   \/ cc_callbacks' = unregister_cc_callback(cc_callbacks, c, f)
        /\ \A p \in Ports :
              Len(calls'[p]) > Len(calls[p]) =>
                  /\ HasNext(cc_callbacks', tev[p].cc, tidx[p])
                  /\ cc_callbacks'[tev[p].cc][tidx[p] + 1] = calls'[p][Len(calls'[p])].cb
      ]_vars

\* C23 witness: on the second message of the device the raising callback g
\* and then f were invoked, and both are still subscribed in that order.
C23_Witness ==
    /\ nmsgs = 2
    /\ tpc[0] = "sleep"
    /\ tev[0].kind = "cc"
    /\ tev[0].cc = 7
    /\ ~dirty[0]
    /\ CallbackSeq(0) = <<"g", "f">>
    /\ Subscribers(7) = <<"g", "f">>

\* C24: with every polling thread scheduled fairly, once close() has cleared
\* the running flag each thread that is still alive eventually leaves its
\* loop; after the flag is cleared no thread passes the loop test again, so
\* a thread performs at most the one read it had already committed to.
C24_StopTerminates ==
    /\ (~running) ~> (\A p \in Ports : Exited(p))
    /\ [][\A p \in Ports : ~running => ~(tpc[p] = "loop" /\ tpc'[p] = "read")]_vars

\* C24 witness: close() has signalled and is waiting; one thread has left
\* its loop while the other, past the loop test when the flag was cleared,
\* is about to do its last read.
C24_Witness ==
    /\ mainpc = "joining"
    /\ ~running
    /\ tpc[0] = "stopped"
    /\ tpc[1] = "read"
    /\ nmsgs > 0

\* C25: the store is keyed by the controller number alone.  When any
\* device's thread stores an event, on whatever channel it arrived, the
\* store then answers that event's value for its controller, whichever
\* device or channel had written the controller before; the only key that
\* can be new is the controller number, and every other controller keeps
\* its value.
C25_StoreKeyedByController ==
    [][ \A p \in Ports :
          (tpc[p] = "read" /\ tpc'[p] = "last_cc") =>
              LET c == tev'[p].cc
              IN /\ DOMAIN cc_values' = DOMAIN cc_values \cup {c}
                 /\ cc_values'[c] = tev'[p].value
                 /\ \A k \in DOMAIN cc_values \ {c} : cc_values'[k] = cc_values[k]
      ]_vars

\* C25 witness: device 0 sent controller 7 = 64 on channel 5 and device 1
\* sent controller 7 = 200 on channel 2; the store answers 200 for
\* controller 7, the value of device 0 is gone.
C25_Witness ==
    /\ tpc[0] = "sleep"
    /\ tev[0] = [kind |-> "cc", cc |-> 7, value |-> 64, channel |-> 5]
    /\ tpc[1] = "sleep"
    /\ tev[1] = [kind |-> "cc", cc |-> 7, value |-> 200, channel |-> 2]
    /\ DOMAIN cc_values = {7}
    /\ get_cc(7, 0) = 200

\* C26: subscribe(c, f) always puts f at the end of the list of c, one entry
\* longer, with the earlier entries where they were (f included, when it was
\* subscribed before) and the other controllers untouched; and a finished
\* dispatch over an unchanged list has made one call per entry, at the
\* entry's position, so a function subscribed k times was called k times.
C26_DuplicateSubscriptions ==
    /\ [][ (tpc' = tpc /\ mainpc' = mainpc /\ tidx' = tidx) =>
             \A c \in SubCCs : \A f \in Callbacks :
                 Register(c, f) =>
                     LET old == Subscribers(c)
                         new == cc_callbacks'[c]
                     IN /\ Len(new) = Len(old) + 1
                        /\ new[Len(new)] = f
                        /\ \A i \in 1 .. Len(old) : new[i] = old[i]
                        /\ \A k \in DOMAIN cc_callbacks \ {c} : cc_callbacks'[k] = cc_callbacks[k]
         ]_vars
    /\ [](\A p \in Ports :
             (tpc[p] = "sleep" /\ tev[p].kind = "cc" /\ ~dirty[p]) =>
                 /\ Len(calls[p]) = Len(Subscribers(tev[p].cc))
                 /\ \A f \in Callbacks :
                       Cardinality({i \in 1 .. Len(calls[p]) : calls[p][i].cb = f})
                           = Occurrences(cc_callbacks, tev[p].cc, f)
                 /\ \A i \in 1 .. Len(calls[p]) :
                       calls[p][i].cb = Subscribers(tev[p].cc)[i])

\* C26 witness: f is subscribed twice to controller 7 and an event of
\* controller 7 has called it twice.
C26_Witness ==
    /\ Subscribers(7) = <<"f", "f">>
    /\ tpc[0] = "sleep"
    /\ tev[0].kind = "cc"
    /\ tev[0].cc = 7
    /\ ~dirty[0]
    /\ CallbackSeq(0) = <<"f", "f">>

\* C27: a second close() raises nothing and changes nothing the first one
\* left: the manager stays not connected with the running flag cleared, the
\* store, the last-event slot, the registry and the lists are untouched, and
\* a handle that was closed stays closed.
C27_CloseIdempotent ==
    /\ [][ (mainpc \in {"closed", "joining_again"} /\ mainpc' # mainpc) =>
             /\ UNCHANGED <<running, connected, listVars, storeVars, cc_callbacks, raised>>
             /\ \A p \in Ports : handle[p] = "closed" => handle'[p] = "closed"
         ]_vars
    /\ [](mainpc \in {"closed", "joining_again", "closed_again"} =>
             /\ ~connected
             /\ ~running
             /\ ~raised
             /\ \A p \in Range(midi_inputs) : handle[p] \in {"closed", "close_failed"})

\* C27 witness: close() has returned twice on a manager whose device had
\* delivered an event to a subscriber; the handle is closed and the thread
\* has stopped.
C27_Witness ==
    /\ mainpc = "closed_again"
    /\ handle[0] = "closed"
    /\ tpc[0] = "stopped"
    /\ cc_values # EmptyDict
    /\ TotalSubs > 0

\* C28: while the manager is in use the three lists built at startup have
\* the same length, and every open handle has exactly one polling thread,
\* which is still in its loop.
C28_OneThreadPerHandle ==
    mainpc = "ready" =>
        /\ Len(midi_inputs) = Len(midi_devices)
        /\ Len(midi_inputs) = Len(midi_threads)
        /\ \A p \in Ports :
              handle[p] = "open" =>
                  /\ Cardinality({i \in 1 .. Len(midi_threads) : midi_threads[i] = p}) = 1
                  /\ ~Exited(p)

\* C29: whenever no polling thread has a message in work (each is at its
\* loop test, about to read, asleep or ended), a last-event slot (c, v)
\* means that get(c, d) answers v for every default d.
C29_SlotAgreesWithStore ==
    (\A p \in Ports : tpc[p] \notin {"last_cc", "dispatch"}) =>
        (last_cc # NoCc => \A d \in Defaults : get_cc(last_cc[1], d) = last_cc[2])

\* C30: when the dispatch of an event is over, every callback that was on
\* the controller's list when the dispatch started and was not unsubscribed
\* meanwhile has been called, whatever was unsubscribed from the list during
\* the dispatch.  All subscriptions are made before the first message, so a
\* function that is on the list now and has one subscription or none removed
\* was there from the start: every function still on the list must be among
\* those called.
C30_DispatchSurvivesUnsubscribe ==
    \A p \in Ports :
        (tpc[p] = "sleep" /\ tev[p].kind = "cc") =>
            \A f \in Range(Subscribers(tev[p].cc)) : f \in Range(CallbackSeq(p))

\* C31: once close() has returned, no step of a polling thread changes the
\* store or the last-event slot or calls a callback, and no thread performs
\* a read on a handle that close() has closed.
C31_QuietAfterClose ==
    [][ (mainpc \in {"closed", "joining_again", "closed_again"}) =>
            /\ UNCHANGED <<cc_values, last_cc>>
            /\ \A p \in Ports :
                  /\ Len(calls'[p]) <= Len(calls[p])
                  /\ handle[p] = "closed" => ~(tpc[p] = "read" /\ tpc'[p] # "read")
      ]_vars

\* C32: a thread calls callbacks only from the dispatch of its event, which
\* it enters only by writing the last-event slot, after the step that wrote
\* the store; and with a single session, throughout the dispatch get(cc, d)
\* answers the event's value for every default d and the slot holds the
\* event, so a callback that queries its own controller sees that value.
C32_WritesBeforeCallbacks ==
    /\ [][ \A p \in Ports :
             /\ Len(calls'[p]) > Len(calls[p]) => tpc[p] = "dispatch"
             /\ (tpc'[p] = "dispatch" /\ tpc[p] # "dispatch") =>
                    /\ tpc[p] = "last_cc"
                    /\ last_cc' = <<tev[p].cc, tev[p].value>>
             /\ (tpc'[p] = "last_cc" /\ tpc[p] # "last_cc") =>
                    /\ tev'[p].cc \in DOMAIN cc_values'
                    /\ cc_values'[tev'[p].cc] = tev'[p].value
         ]_vars
    /\ [](\A p \in Ports :
             tpc[p] = "dispatch" =>
                 /\ last_cc = <<tev[p].cc, tev[p].value>>
                 /\ \A d \in Defaults : get_cc(tev[p].cc, d) = tev[p].value)

\* C32 witness: in the middle of the dispatch of controller 7 = 200, one
\* callback called and one to go, the store answers 200 and the slot holds
\* (7, 200).
C32_Witness ==
    /\ tpc[0] = "dispatch"
    /\ tev[0].cc = 7
    /\ tev[0].value = 200
    /\ tidx[0] = 1
    /\ Len(calls[0]) = 1
    /\ Len(Subscribers(7)) = 2
    /\ get_cc(7, 0) = 200
    /\ last_cc = <<7, 200>>

\* C33: a subscribe call changes neither the store nor the last-event slot
\* and calls nothing, and the function it adds is called only for events
\* whose dispatch starts afterwards.  Every subscription is made either
\* before the first message or during a dispatch of its controller, so when
\* a thread's dispatch saw the list change, the last entry of the list was
\* added during that dispatch and the calls of the event must be fewer than
\* the entries.
C33_SubscribeForFutureEvents ==
    /\ [][ cc_callbacks' # cc_callbacks => UNCHANGED <<cc_values, last_cc, calls>> ]_vars
    /\ [](\A p \in Ports :
             (tpc[p] \in {"dispatch", "sleep"} /\ tev[p].kind = "cc" /\ dirty[p]) =>
                 Len(calls[p]) < Len(Subscribers(tev[p].cc)))

====
